---- MODULE Spec2Model ----
(***************************************************************************)
(* Model of bin/generate.js: the namespace tree, the class registry, the   *)
(* register passes over docs.classes and docs.classitems, the              *)
(* postProcess resolution pass and the building of member declarations.    *)
(*                                                                         *)
(* Dotted names are sequences of their segments ("Ember.RSVP.Promise" is   *)
(* <<"Ember", "RSVP", "Promise">>), so split('.') and join('.') are the    *)
(* representation itself.  A Map is a sequence of entries in insertion     *)
(* order.  Objects are referred to by identity: a Klass by its position    *)
(* in klasses, an item record by its position in docs.classitems.          *)
(***************************************************************************)
EXTENDS Integers, Sequences, FiniteSets, TLC

VARIABLES
  docs,        \* the parsed input document (line 479)
  namespaces,  \* the Namespace tree under Namespace.root, as the set of paths
  registry,    \* the namespaces' `classes` maps: <<namespace path, name>> -> Klass
  klasses,     \* the Klass objects, in creation order
  classes,     \* the `classes` array (line 495)
  warnings,    \* what console.warn was called with, in order
  error,       \* the value thrown out of the program, "" while none
  pc,          \* position of the main program
  ci,          \* next entry of docs.classes
  ii,          \* next entry of docs.classitems
  ri,          \* next entry of classes.forEach(k => k.postProcess())
  stack,       \* the postProcess activations, innermost last
  entries,     \* the Klass of every postProcess body run past its guard, in order
  calls,       \* the full names Klass.create was called with (SpecCreate)
  emData,      \* the item record handed to new ClassItem (SpecEmit)
  emItem,      \* the ClassItem built from it
  emDecls,     \* the value of its `declarations` getter
  emPc         \* position of the declaration building

vars == <<docs, namespaces, registry, klasses, classes, warnings, error, pc,
          ci, ii, ri, stack, entries, calls, emData, emItem, emDecls, emPc>>

progVars == <<docs, namespaces, registry, klasses, classes, warnings, error,
              pc, ci, ii, ri, stack, entries>>
emVars == <<emData, emItem, emDecls, emPc>>

----------------------------------------------------------------------------
(* Bounds of the model. *)

MaxSize == 4     \* extends/uses references plus item records of a document
MaxCalls == 4    \* Klass.create calls in SpecCreate
MaxParams == 3   \* longest params list of an item record in SpecEmit

----------------------------------------------------------------------------
(* Sequence helpers. *)

SeqsUpTo(S, n) == UNION {[1..m -> S] : m \in 0..n}

Last(s) == s[Len(s)]

Front(s) == SubSeq(s, 1, Len(s) - 1)

----------------------------------------------------------------------------
(* Namespace (lines 13-58). *)

RootPath == <<>>

Prefixes(path) == {SubSeq(path, 1, n) : n \in 0..Len(path)}

\* Namespace.for(name, options): the namespace found or created, and the tree
\* after the call.  found = FALSE is the `undefined` result.
NamespaceFor(tree, path, autocreate) ==
  IF path = RootPath THEN [found |-> TRUE, tree |-> tree]
  ELSE IF autocreate THEN [found |-> TRUE, tree |-> tree \cup Prefixes(path)]
  ELSE [found |-> Prefixes(path) \subseteq tree, tree |-> tree]

\* NAMESPACE_MAP (lines 61-63)
NamespaceMap(ns) == IF ns = <<"RSVP">> THEN <<"Ember", "RSVP">> ELSE ns

\* namespaceAndKlassName (lines 65-74)
NamespaceAndKlassName(fullName) ==
  <<NamespaceMap(Front(fullName)), Last(fullName)>>

----------------------------------------------------------------------------
(* Klass: constructor, create, find (lines 118-177). *)

NoName == <<>>            \* an absent (undefined) name
NoKlass == 0              \* `undefined` where a Klass is expected
NoError == ""

PromiseName == <<"Ember", "RSVP", "Promise">>

\* entries of klass.implements: a Klass or a string (line 140, line 205)
KlassImpl(k) == [kind |-> "klass", id |-> k, text |-> ""]
StringImpl(t) == [kind |-> "string", id |-> NoKlass, text |-> t]

Warn(kind, subject, detail) == [kind |-> kind, subject |-> subject, detail |-> detail]

\* new Klass(name, data) (lines 119-145); the fields only the emitter reads
\* (type, builtIn, mixin, private, docs, isTrueClass, generics) are left out
NewKlass(name, data) ==
  [name |-> name,
   data |-> data,
   fullName |-> data.name,
   implements |-> IF data.name = PromiseName THEN <<StringImpl("Promise<T>")>> ELSE <<>>,
   extends |-> NoKlass,
   postProcessed |-> FALSE,
   isNamespace |-> FALSE,
   items |-> <<>>]

\* The part of the state Klass.create works on.
Reg(ns, rg, ks, ws) == [namespaces |-> ns, registry |-> rg, klasses |-> ks, warnings |-> ws]

\* Faulty variant of KlassCreate: the has() test of line 151 is missing, so a
\* later call replaces the class of the pair.
KlassCreateReplace(r, fullName, data) ==
  LET names == NamespaceAndKlassName(fullName)
      nsr == NamespaceFor(r.namespaces, names[1], TRUE)
      id == Len(r.klasses) + 1
  IN [reg |-> [r EXCEPT !.namespaces = nsr.tree,
                        !.registry = (names :> id) @@ @,
                        !.klasses = Append(@, NewKlass(names[2], data))],
      klass |-> id]

\* Klass.create(fullName, data) (lines 147-160): the state after the call and
\* the Klass returned (NoKlass for the bare `return`)
KlassCreate(r, fullName, data) ==
  LET names == NamespaceAndKlassName(fullName)
      nsr == NamespaceFor(r.namespaces, names[1], TRUE)
      id == Len(r.klasses) + 1
  IN IF names \in DOMAIN r.registry
     THEN [reg |-> [r EXCEPT !.namespaces = nsr.tree,
                             !.warnings = Append(@, Warn("class-exists", fullName, NoName))],
           klass |-> NoKlass]
     ELSE [reg |-> [r EXCEPT !.namespaces = nsr.tree,
                             !.registry = (names :> id) @@ @,
                             !.klasses = Append(@, NewKlass(names[2], data))],
           klass |-> id]

\* Klass.find(fullName, options) (lines 162-177): threw = TRUE is the throw of
\* line 172, klass = NoKlass the `undefined` of line 170 or of Map.get
KlassFind(tree, rg, fullName, allowMissingNamespace) ==
  LET names == NamespaceAndKlassName(fullName)
      nsr == NamespaceFor(tree, names[1], FALSE)
  IN IF ~nsr.found
     THEN [threw |-> ~allowMissingNamespace, klass |-> NoKlass]
     ELSE [threw |-> FALSE,
           klass |-> IF names \in DOMAIN rg THEN rg[names] ELSE NoKlass]

----------------------------------------------------------------------------
(* ClassItem and the items Map of a Klass (lines 322-358). *)

\* get key() (lines 353-358): 'static:' + name, or name
ItemKey(static, name) == <<static, name>>

StaticCreate == ItemKey(TRUE, "create")

\* new ClassItem(data, klass) (lines 323-351) for record `d` of docs.classitems;
\* the fields the declaration builder reads are modelled by EmItem below
NewClassItem(d, rec, k) ==
  [key |-> ItemKey(rec.static, rec.name),
   data |-> d,
   klass |-> k,
   private |-> (rec.access = "private")]

\* Map.has / Map.get / Map.set on a Map kept as a sequence of entries
MapHas(items, key) == \E i \in 1..Len(items) : items[i].key = key

MapGet(items, key) == items[CHOOSE i \in 1..Len(items) : items[i].key = key]

\* Faulty variant of MapSet: an entry already under the key is kept.
MapSetIfAbsent(items, key, item) ==
  IF MapHas(items, key) THEN items ELSE Append(items, item)

MapSet(items, key, item) ==
  IF MapHas(items, key)
  THEN [i \in 1..Len(items) |-> IF items[i].key = key THEN item ELSE items[i]]
  ELSE Append(items, item)

----------------------------------------------------------------------------
(* The register passes of the main program (lines 483-540). *)

\* IGNORE and ignoreItem (lines 483-491): the name is 'Ember.Templates' or
\* starts with 'Ember.Templates.'
IgnoreItem(name) == Len(name) >= 2 /\ SubSeq(name, 1, 2) = <<"Ember", "Templates">>

ItemTypes == {"method", "property", "event"}

\* ADDITIONAL_CLASSES (lines 527-532)
AdditionalClasses ==
  << <<"DOMElement">>, <<"Registry">>, <<"Transition">>, <<"Handlebars", "SafeString">> >>

AfterClasses(d) == IF Len(d.classitems) = 0 THEN "additional" ELSE "items"

\* one iteration of `for (let name in docs.classes)` (lines 497-505)
RegisterClass ==
  /\ pc = "classes"
  /\ LET entry == docs.classes[ci]
         r == KlassCreate(Reg(namespaces, registry, klasses, warnings), entry.key, entry.data)
     IN IF IgnoreItem(entry.key)
        THEN UNCHANGED <<namespaces, registry, klasses, warnings, classes>>
        ELSE /\ namespaces' = r.reg.namespaces
             /\ registry' = r.reg.registry
             /\ klasses' = r.reg.klasses
             /\ warnings' = r.reg.warnings
             /\ classes' = IF r.klass # NoKlass THEN Append(classes, r.klass) ELSE classes
  /\ ci' = ci + 1
  /\ pc' = IF ci = Len(docs.classes) THEN AfterClasses(docs) ELSE "classes"
  /\ UNCHANGED <<docs, error, ii, ri, stack, entries, calls, emVars>>

\* one call of the docs.classitems.forEach callback (lines 507-524)
RegisterItem ==
  /\ pc = "items"
  /\ LET rec == docs.classitems[ii]
         f == KlassFind(namespaces, registry, rec.class, FALSE)
         item == NewClassItem(ii, rec, f.klass)
         more == IF ii = Len(docs.classitems) THEN "additional" ELSE "items"
     IN IF IgnoreItem(rec.class)
        THEN /\ pc' = more
             /\ UNCHANGED <<klasses, warnings, error>>
        ELSE IF f.threw
        THEN /\ pc' = "aborted"
             /\ error' = "No namespace found"
             /\ UNCHANGED <<klasses, warnings>>
        ELSE IF f.klass = NoKlass
        THEN /\ pc' = more
             /\ warnings' = Append(warnings, Warn("klass-not-found", rec.class, NoName))
             /\ UNCHANGED <<klasses, error>>
        ELSE IF rec.name # "" /\ rec.itemtype \in ItemTypes
        THEN /\ pc' = more
             /\ warnings' = IF MapHas(klasses[f.klass].items, item.key)
                             THEN Append(warnings, Warn("duplicate-item",
                                                        klasses[f.klass].fullName, item.key))
                             ELSE warnings
             /\ klasses' = [klasses EXCEPT ![f.klass].items = MapSet(@, item.key, item)]
             /\ UNCHANGED error
        ELSE /\ pc' = more
             /\ UNCHANGED <<klasses, warnings, error>>
  /\ ii' = ii + 1
  /\ UNCHANGED <<docs, namespaces, registry, classes, ci, ri, stack, entries, calls, emVars>>

\* ADDITIONAL_CLASSES.forEach (lines 534-540), from its i-th name on: the
\* registry state and the classes array after it
RECURSIVE CreateAdditional(_, _, _)
CreateAdditional(r, cls, i) ==
  IF i > Len(AdditionalClasses) THEN [reg |-> r, classes |-> cls]
  ELSE LET n == AdditionalClasses[i]
           c == KlassCreate(r, n, [name |-> n, extends |-> NoName, uses |-> <<>>])
       IN CreateAdditional(c.reg,
                           IF c.klass # NoKlass THEN Append(cls, c.klass) ELSE cls,
                           i + 1)

AddMissingClasses ==
  /\ pc = "additional"
  /\ LET r == CreateAdditional(Reg(namespaces, registry, klasses, warnings), classes, 1)
     IN /\ namespaces' = r.reg.namespaces
        /\ registry' = r.reg.registry
        /\ klasses' = r.reg.klasses
        /\ warnings' = r.reg.warnings
        /\ classes' = r.classes
  /\ pc' = "resolve"
  /\ UNCHANGED <<docs, error, ci, ii, ri, stack, entries, calls, emVars>>

----------------------------------------------------------------------------
(* Klass.postProcess (lines 180-232) and the resolve-all pass (line 543).  *)
(* An activation is [k, at, i]: the Klass it runs on, the statement it is  *)
(* at, and the position in this.implements of the forEach of line 210.     *)

Frame(k, at, i) == [k |-> k, at |-> at, i |-> i]

Top == stack[Len(stack)]

SetTop(f) == [stack EXCEPT ![Len(stack)] = f]

\* Faulty variant of AlreadyProcessed: the guard of lines 181-182 is missing.
NeverProcessed(ks, k) == FALSE

\* the guard of lines 181-182: TRUE when the call returns at once
AlreadyProcessed(ks, k) == ks[k].postProcessed

\* Faulty variant of CallPostProcess: line 182 is missing, so the flag is
\* never set.
CallPostProcessNoFlag(ks, st, k) ==
  IF ks[k].postProcessed
  THEN [klasses |-> ks, stack |-> st, entries |-> entries]
  ELSE [klasses |-> [ks EXCEPT ![k].isNamespace =
                                  NamespaceFor(namespaces, ks[k].fullName, FALSE).found],
        stack |-> Append(st, Frame(k, "extends", 1)),
        entries |-> Append(entries, k)]

\* A call k.postProcess() from a state with Klass objects ks and activations
\* st: lines 181-185 of the callee.  Returns the objects, the activations and
\* the entries after the callee has either returned at once or entered its body.
CallPostProcess(ks, st, k) ==
  IF AlreadyProcessed(ks, k)
  THEN [klasses |-> ks, stack |-> st, entries |-> entries]
  ELSE [klasses |-> [ks EXCEPT ![k].postProcessed = TRUE,
                               ![k].isNamespace =
                                  NamespaceFor(namespaces, ks[k].fullName, FALSE).found],
        stack |-> Append(st, Frame(k, "extends", 1)),
        entries |-> Append(entries, k)]

\* one iteration of classes.forEach(k => k.postProcess()) (line 543)
PostProcessNext ==
  /\ pc = "resolve"
  /\ stack = <<>>
  /\ ri <= Len(classes)
  /\ LET c == CallPostProcess(klasses, stack, classes[ri])
     IN /\ klasses' = c.klasses
        /\ stack' = c.stack
        /\ entries' = c.entries
  /\ ri' = ri + 1
  /\ UNCHANGED <<docs, namespaces, registry, classes, warnings, error, pc, ci, ii,
                 calls, emVars>>

\* a throw out of postProcess unwinds every activation and ends the program
Abort(msg) ==
  /\ pc' = "aborted"
  /\ error' = msg
  /\ stack' = <<>>

\* lines 187-192 and 197-199: look the extends target up and call its postProcess
ExtendsStep ==
  /\ pc = "resolve"
  /\ stack # <<>>
  /\ Top.at = "extends"
  /\ LET this == Top.k
         target == klasses[this].data.extends
         f == KlassFind(namespaces, registry, target, FALSE)
     IN IF target = NoName
        THEN /\ stack' = SetTop(Frame(this, "uses", 1))
             /\ UNCHANGED <<klasses, warnings, error, pc, entries>>
        ELSE IF f.threw
        THEN /\ Abort("No namespace found")
             /\ UNCHANGED <<klasses, warnings, entries>>
        ELSE IF f.klass = NoKlass
        THEN /\ stack' = SetTop(Frame(this, "uses", 1))
             /\ warnings' = Append(warnings,
                                   Warn("cant-find-extended", klasses[this].fullName, target))
             /\ UNCHANGED <<klasses, error, pc, entries>>
        ELSE LET c == CallPostProcess([klasses EXCEPT ![this].extends = f.klass],
                                      SetTop(Frame(this, "extendsRet", 1)), f.klass)
             IN /\ klasses' = c.klasses
                /\ stack' = c.stack
                /\ entries' = c.entries
                /\ UNCHANGED <<warnings, error, pc>>
  /\ UNCHANGED <<docs, namespaces, registry, classes, ci, ii, ri, calls, emVars>>

\* Faulty variant of CopyParentCreate: the parent's ClassItem itself is stored
\* instead of a new ClassItem owned by `this`.
CopyParentCreateShared(own, parentItems, this) ==
  IF MapHas(parentItems, StaticCreate)
  THEN MapSet(own, StaticCreate, MapGet(parentItems, StaticCreate))
  ELSE own

\* lines 193-196, after klass.postProcess() has returned: the items of `this`
\* after the parent's static create, if any, was copied over
CopyParentCreate(own, parentItems, this) ==
  IF MapHas(parentItems, StaticCreate)
  THEN LET parentCreate == MapGet(parentItems, StaticCreate)
       IN MapSet(own, StaticCreate,
                 NewClassItem(parentCreate.data, docs.classitems[parentCreate.data], this))
  ELSE own

ExtendsRet ==
  /\ pc = "resolve"
  /\ stack # <<>>
  /\ Top.at = "extendsRet"
  /\ LET this == Top.k
         klass == klasses[this].extends
     IN klasses' = [klasses EXCEPT
                      ![this].items = CopyParentCreate(@, klasses[klass].items, this)]
  /\ stack' = SetTop(Frame(Top.k, "uses", 1))
  /\ UNCHANGED <<docs, namespaces, registry, classes, warnings, error, pc, ci, ii, ri,
                 entries, calls, emVars>>

\* data.uses.map(i => Klass.find(i)).filter(i => i) (line 203), from the j-th
\* name on; threw when a Klass.find throws
RECURSIVE FindUses(_, _)
FindUses(uses, j) ==
  IF j > Len(uses) THEN [threw |-> FALSE, impls |-> <<>>]
  ELSE LET f == KlassFind(namespaces, registry, uses[j], FALSE)
           rest == FindUses(uses, j + 1)
       IN IF f.threw \/ rest.threw THEN [threw |-> TRUE, impls |-> <<>>]
          ELSE [threw |-> FALSE,
                impls |-> IF f.klass = NoKlass THEN rest.impls
                          ELSE <<KlassImpl(f.klass)>> \o rest.impls]

\* lines 202-207
UsesStep ==
  /\ pc = "resolve"
  /\ stack # <<>>
  /\ Top.at = "uses"
  /\ LET this == Top.k
         u == FindUses(klasses[this].data.uses, 1)
     IN IF u.threw
        THEN /\ Abort("No namespace found")
             /\ UNCHANGED klasses
        ELSE /\ klasses' = IF Len(u.impls) > 0
                            THEN [klasses EXCEPT ![this].implements = u.impls]
                            ELSE klasses
             /\ stack' = SetTop(Frame(this, "merge", 1))
             /\ UNCHANGED <<error, pc>>
  /\ UNCHANGED <<docs, namespaces, registry, classes, warnings, ci, ii, ri, entries,
                 calls, emVars>>

\* lines 210-213: the next entry of this.implements; a Klass is post-processed
MergeCall ==
  /\ pc = "resolve"
  /\ stack # <<>>
  /\ Top.at = "merge"
  /\ Top.i <= Len(klasses[Top.k].implements)
  /\ LET this == Top.k
         impl == klasses[this].implements[Top.i]
         c == CallPostProcess(klasses, SetTop(Frame(this, "mergeRet", Top.i)), impl.id)
     IN IF impl.kind = "klass"
        THEN /\ klasses' = c.klasses
             /\ stack' = c.stack
             /\ entries' = c.entries
        ELSE /\ stack' = SetTop(Frame(this, "merge", Top.i + 1))
             /\ UNCHANGED <<klasses, entries>>
  /\ UNCHANGED <<docs, namespaces, registry, classes, warnings, error, pc, ci, ii, ri,
                 calls, emVars>>

\* k.items.forEach (lines 216-228) from the j-th item of the mixin on: the
\* items of `this` and the warnings after it
RECURSIVE MergeItems(_, _, _, _, _)
MergeItems(own, ws, mixinItems, j, this) ==
  IF j > Len(mixinItems) THEN [items |-> own, warnings |-> ws]
  ELSE LET i == mixinItems[j]
       IN IF i.private
          THEN MergeItems(own, ws, mixinItems, j + 1, this)
          ELSE IF MapHas(own, i.key)
          THEN IF MapGet(own, i.key).private
               THEN MergeItems(
                      MapSet(own, i.key, [MapGet(own, i.key) EXCEPT !.private = FALSE]),
                      Append(ws, Warn("private-false", klasses[this].fullName, i.key)),
                      mixinItems, j + 1, this)
               ELSE MergeItems(own, ws, mixinItems, j + 1, this)
          ELSE MergeItems(
                 MapSet(own, i.key, NewClassItem(i.data, docs.classitems[i.data], this)),
                 ws, mixinItems, j + 1, this)

\* lines 215-228, after k.postProcess() has returned
MergeRet ==
  /\ pc = "resolve"
  /\ stack # <<>>
  /\ Top.at = "mergeRet"
  /\ LET this == Top.k
         k == klasses[this].implements[Top.i].id
         m == MergeItems(klasses[this].items, warnings, klasses[k].items, 1, this)
     IN /\ klasses' = [klasses EXCEPT ![this].items = m.items]
        /\ warnings' = m.warnings
  /\ stack' = SetTop(Frame(Top.k, "merge", Top.i + 1))
  /\ UNCHANGED <<docs, namespaces, registry, classes, error, pc, ci, ii, ri, entries,
                 calls, emVars>>

\* the end of postProcess (line 232): back to the caller
Return ==
  /\ pc = "resolve"
  /\ stack # <<>>
  /\ Top.at = "merge"
  /\ Top.i > Len(klasses[Top.k].implements)
  /\ stack' = Front(stack)
  /\ UNCHANGED <<docs, namespaces, registry, klasses, classes, warnings, error, pc, ci,
                 ii, ri, entries, calls, emVars>>

\* the resolve-all pass is over; the program goes on to write the output
\* (lines 594-599), which changes nothing modelled here
Finish ==
  /\ pc = "resolve"
  /\ stack = <<>>
  /\ ri > Len(classes)
  /\ pc' = "done"
  /\ UNCHANGED <<docs, namespaces, registry, klasses, classes, warnings, error, ci, ii,
                 ri, stack, entries, calls, emVars>>

----------------------------------------------------------------------------
(* The input documents of the main program. *)

A == <<"Ember", "A">>
B == <<"Ember", "B">>
M == <<"Ember", "M">>
Ghost == <<"Ember", "Ghost">>    \* its namespace exists, the class does not
Missing == <<"Vendor", "Base">>  \* its namespace is never created

Targets == {A, B, M, Ghost, Missing}

ClassRecord(key, ext, uses) == [key |-> key, data |-> [name |-> key, extends |-> ext, uses |-> uses]]

EdgesOf(ext, uses) == (IF ext = NoName THEN 0 ELSE 1) + Len(uses)

\* the extends/uses declarations a class record can carry with at most n references
DeclaredRefs(n) ==
  {d \in ({NoName} \cup Targets) \X SeqsUpTo(Targets, n) : EdgesOf(d[1], d[2]) <= n}

ItemRecord(class, name, static, access) ==
  [class |-> class, name |-> name, itemtype |-> "method", static |-> static, access |-> access]

ItemRecords ==
  {ItemRecord(A, "create", TRUE, "public"), ItemRecord(M, "create", TRUE, "public"),
   ItemRecord(A, "x", FALSE, "private"), ItemRecord(M, "x", FALSE, "public")}

\* Documents with the classes A, B and M in this order, where A and B declare
\* what they extend and use and M declares nothing, of size at most MaxSize.
Document(da, db, its) ==
  [classes |-> <<ClassRecord(A, da[1], da[2]),
                 ClassRecord(B, db[1], db[2]),
                 ClassRecord(M, NoName, <<>>)>>,
   classitems |-> its]

Init ==
  /\ \E da \in DeclaredRefs(MaxSize) :
       \E db \in DeclaredRefs(MaxSize - EdgesOf(da[1], da[2])) :
         \E its \in SeqsUpTo(ItemRecords,
                              MaxSize - EdgesOf(da[1], da[2]) - EdgesOf(db[1], db[2])) :
           docs = Document(da, db, its)
  /\ namespaces = {RootPath}
  /\ registry = [p \in {} |-> NoKlass]
  /\ klasses = <<>>
  /\ classes = <<>>
  /\ warnings = <<>>
  /\ error = NoError
  /\ pc = "classes"
  /\ ci = 1
  /\ ii = 1
  /\ ri = 1
  /\ stack = <<>>
  /\ entries = <<>>
  /\ calls = <<>>
  /\ emData = [itemtype |-> "method", hasParams |-> FALSE, params |-> <<>>]
  /\ emItem = [threw |-> FALSE, itemType |-> "method", hasParams |-> FALSE, params |-> <<>>]
  /\ emDecls = <<>>
  /\ emPc = "idle"

Next ==
  \/ RegisterClass
  \/ RegisterItem
  \/ AddMissingClasses
  \/ PostProcessNext
  \/ ExtendsStep
  \/ ExtendsRet
  \/ UsesStep
  \/ MergeCall
  \/ MergeRet
  \/ Return
  \/ Finish

Spec == Init /\ [][Next]_vars

----------------------------------------------------------------------------
(* Klass.create called with any sequence of full names. *)

CreateNames ==
  {<<"Ember", "RSVP", "Promise">>, <<"RSVP", "Promise">>, <<"DOMElement">>, <<"Ember", "Object">>}

InitCreate ==
  /\ docs = [classes |-> <<>>, classitems |-> <<>>]
  /\ namespaces = {RootPath}
  /\ registry = [p \in {} |-> NoKlass]
  /\ klasses = <<>>
  /\ classes = <<>>
  /\ warnings = <<>>
  /\ error = NoError
  /\ pc = "create"
  /\ ci = 1
  /\ ii = 1
  /\ ri = 1
  /\ stack = <<>>
  /\ entries = <<>>
  /\ calls = <<>>
  /\ emData = [itemtype |-> "method", hasParams |-> FALSE, params |-> <<>>]
  /\ emItem = [threw |-> FALSE, itemType |-> "method", hasParams |-> FALSE, params |-> <<>>]
  /\ emDecls = <<>>
  /\ emPc = "idle"

\* let klass = Klass.create(n, { name: n }); if (klass) { classes.push(klass); }
\* (lines 536-539, with any name)
CreateCall ==
  /\ pc = "create"
  /\ Len(calls) < MaxCalls
  /\ \E n \in CreateNames :
       LET r == KlassCreate(Reg(namespaces, registry, klasses, warnings), n,
                            [name |-> n, extends |-> NoName, uses |-> <<>>])
       IN /\ namespaces' = r.reg.namespaces
          /\ registry' = r.reg.registry
          /\ klasses' = r.reg.klasses
          /\ warnings' = r.reg.warnings
          /\ classes' = IF r.klass # NoKlass THEN Append(classes, r.klass) ELSE classes
          /\ calls' = Append(calls, n)
  /\ UNCHANGED <<docs, error, pc, ci, ii, ri, stack, entries, emVars>>

NextCreate == CreateCall

SpecCreate == InitCreate /\ [][NextCreate]_vars

----------------------------------------------------------------------------
(* ClassItemParam, ClassItem's params and the declarations of a member     *)
(* (lines 335-343, 380-476).                                               *)
(*                                                                         *)
(* A param record of the input is [base, star, type]: its name is base     *)
(* followed by '*' when star; type is [present, ellipsis, conv], where     *)
(* ellipsis says the raw type holds '...' and conv is what convertType     *)
(* returns for it (line 460), split at '|'.                                *)

NoType == [present |-> FALSE, ellipsis |-> FALSE, conv |-> <<>>]

ParamTypes ==
  {NoType,
   [present |-> TRUE, ellipsis |-> FALSE, conv |-> <<"string">>],
   [present |-> TRUE, ellipsis |-> TRUE, conv |-> <<"{}", "any[]">>]}

ParamRecords == [base : {"a", "arguments"}, star : BOOLEAN, type : ParamTypes]

\* new ClassItemParam(data, item) (lines 439-461)
NewClassItemParam(data) ==
  [name |-> IF data.base = "arguments" THEN "args" ELSE data.base,
   rest |-> data.star \/ (data.type.present /\ data.type.ellipsis),
   type |-> IF data.type.present THEN data.type.conv ELSE <<"any">>]

\* ClassItemParam.toString (lines 463-475): `...name: type[]` for a rest
\* parameter, `name: type` otherwise
ParamToString(p) ==
  IF p.rest
  THEN [spread |-> TRUE, name |-> p.name,
        type |-> <<IF p.type[1] = "{}" THEN "any" ELSE p.type[1]>>, array |-> TRUE]
  ELSE [spread |-> FALSE, name |-> p.name, type |-> p.type, array |-> FALSE]

\* the params part of new ClassItem(data, klass) (lines 327, 335-343);
\* threw = TRUE is the throw of line 337
EmItem(data) ==
  LET itemType == IF data.itemtype = "event" THEN "method" ELSE data.itemtype
  IN [threw |-> data.hasParams /\ itemType # "method",
      itemType |-> itemType,
      hasParams |-> data.hasParams,
      params |-> IF data.hasParams
                 THEN [i \in 1..Len(data.params) |-> NewClassItemParam(data.params[i])]
                 ELSE <<>>]

\* params.find(p => p.rest) / params.indexOf(rest): position of the first rest
\* parameter, 0 when there is none
FirstRest(ps) ==
  IF \E i \in 1..Len(ps) : ps[i].rest
  THEN CHOOSE i \in 1..Len(ps) : ps[i].rest /\ \A j \in 1..(i - 1) : ~ps[j].rest
  ELSE 0

IsPlain(p) == ~p.rest

\* Faulty variant of ListedParams: with skipRest the list is cut before the
\* first rest parameter.
ListedParamsTruncated(params, skipRest) ==
  IF FirstRest(params) = 0 THEN params
  ELSE IF skipRest THEN SubSeq(params, 1, FirstRest(params) - 1)
  ELSE SubSeq(params, 1, FirstRest(params))

\* the parameters buildDeclaration lists (lines 400-409)
ListedParams(params, skipRest) ==
  IF skipRest THEN SelectSeq(params, IsPlain)
  ELSE IF FirstRest(params) # 0 THEN SubSeq(params, 1, FirstRest(params))
  ELSE params

\* buildDeclaration(skipRest) (lines 380-421): the parameter list of the
\* declaration; its prefix, name and return type are left out
BuildDeclaration(item, skipRest) ==
  IF item.itemType = "method"
  THEN LET ps == ListedParams(item.params, skipRest)
       IN [method |-> TRUE, params |-> [i \in 1..Len(ps) |-> ParamToString(ps[i])]]
  ELSE [method |-> FALSE, params |-> <<>>]

\* get declarations() (lines 423-435)
ItemDeclarations(item) ==
  LET rest == IF item.hasParams THEN FirstRest(item.params) ELSE 0
  IN IF rest # 0 /\ rest # Len(item.params)
     THEN <<BuildDeclaration(item, FALSE), BuildDeclaration(item, TRUE)>>
     ELSE <<BuildDeclaration(item, FALSE)>>

EmDataSet ==
  {[itemtype |-> t, hasParams |-> TRUE, params |-> ps] :
     t \in ItemTypes, ps \in SeqsUpTo(ParamRecords, MaxParams)}
    \cup {[itemtype |-> t, hasParams |-> FALSE, params |-> <<>>] : t \in ItemTypes}

InitEmit ==
  /\ docs = [classes |-> <<>>, classitems |-> <<>>]
  /\ namespaces = {RootPath}
  /\ registry = [p \in {} |-> NoKlass]
  /\ klasses = <<>>
  /\ classes = <<>>
  /\ warnings = <<>>
  /\ error = NoError
  /\ pc = "idle"
  /\ ci = 1
  /\ ii = 1
  /\ ri = 1
  /\ stack = <<>>
  /\ entries = <<>>
  /\ calls = <<>>
  /\ emData \in EmDataSet
  /\ emItem = [threw |-> FALSE, itemType |-> "method", hasParams |-> FALSE, params |-> <<>>]
  /\ emDecls = <<>>
  /\ emPc = "new"

\* let item = new ClassItem(data, klass) (line 518)
EmConstruct ==
  /\ emPc = "new"
  /\ emItem' = EmItem(emData)
  /\ emPc' = IF EmItem(emData).threw THEN "threw" ELSE "built"
  /\ UNCHANGED <<progVars, calls, emData, emDecls>>

\* item.declarations (line 556)
EmDeclare ==
  /\ emPc = "built"
  /\ emDecls' = ItemDeclarations(emItem)
  /\ emPc' = "emitted"
  /\ UNCHANGED <<progVars, calls, emData, emItem>>

NextEmit == EmConstruct \/ EmDeclare

SpecEmit == InitEmit /\ [][NextEmit]_vars

----------------------------------------------------------------------------
(* Properties. *)

Klasses == 1..Len(klasses)

Items(k) == klasses[k].items

Owns(k, key) == MapHas(Items(k), key) /\ MapGet(Items(k), key).klass = k

Max(S) == CHOOSE x \in S : \A y \in S : y <= x

Min(S) == CHOOSE x \in S : \A y \in S : x <= y

WarningsOf(kind) == {i \in 1..Len(warnings) : warnings[i].kind = kind}

\* k's parent after n extends links, NoKlass when the chain ends before
RECURSIVE Ancestor(_, _)
Ancestor(k, n) ==
  IF k = NoKlass \/ n = 0 THEN k ELSE Ancestor(klasses[k].extends, n - 1)

ExtendsCycle == \E k \in Klasses : \E n \in 1..Len(klasses) : Ancestor(k, n) = k

\* C1 as stated: after the resolve-all pass every non-private member of the
\* parent P of a class C is in C's member map under the same key, owned by C.
C1_ParentMembersInherited ==
  pc = "done" =>
    \A c \in Klasses :
      klasses[c].extends # NoKlass =>
        \A i \in 1..Len(Items(klasses[c].extends)) :
          LET m == Items(klasses[c].extends)[i]
          IN ~m.private => Owns(c, m.key)

ExtendsReturning == pc = "resolve" /\ stack # <<>> /\ Top.at = "extendsRet"

\* C1 as amended: the step of C's resolution that follows the resolution of
\* its parent P copies P's static create and nothing else.  If P's member map
\* holds a static create, C's map then holds one built from the same item
\* record with C as its owning class; every other entry of C's map is what it
\* was, and no other key of P is added.
C1_OnlyStaticCreateInherited ==
  [][ExtendsReturning =>
       LET c == Top.k
           p == klasses[c].extends
           before == klasses[c].items
           after == klasses'[c].items
       IN /\ MapHas(Items(p), StaticCreate) =>
               /\ MapHas(after, StaticCreate)
               /\ MapGet(after, StaticCreate).klass = c
               /\ MapGet(after, StaticCreate).data = MapGet(Items(p), StaticCreate).data
          /\ \A i \in 1..Len(before) : before[i].key # StaticCreate => after[i] = before[i]
          /\ \A i \in 1..Len(after) :
               after[i].key # StaticCreate => MapHas(before, after[i].key)
          /\ ~MapHas(Items(p), StaticCreate) => after = before]_vars

\* C1 witness: the pass is over, C extends another class P that has a static
\* create and a public member besides; C has the create, as its own, and
\* lacks the other member.
C1_Witness ==
  /\ pc = "done"
  /\ \E c \in Klasses :
       LET p == klasses[c].extends
       IN /\ p # NoKlass
          /\ p # c
          /\ MapHas(Items(p), StaticCreate)
          /\ \E i \in 1..Len(Items(p)) :
               ~Items(p)[i].private /\ ~MapHas(Items(c), Items(p)[i].key)
          /\ Owns(c, StaticCreate)

\* C2 as stated: once the pass has finished, every non-private member of every
\* mixin M in C's implements list is in C's member map under the same key,
\* owned by C.
C2_MixinMembersMerged ==
  pc = "done" =>
    \A c \in Klasses :
      \A j \in 1..Len(klasses[c].implements) :
        LET impl == klasses[c].implements[j]
        IN impl.kind = "klass" =>
             \A i \in 1..Len(Items(impl.id)) :
               ~Items(impl.id)[i].private => Owns(c, Items(impl.id)[i].key)

\* the Klass record d of docs.classitems is attached to, NoKlass when none
ItemOwner(d) == KlassFind(namespaces, registry, docs.classitems[d].class, TRUE).klass

ItemAccepted(d) ==
  LET rec == docs.classitems[d]
  IN /\ ~IgnoreItem(rec.class)
     /\ ItemOwner(d) # NoKlass
     /\ rec.name # ""
     /\ rec.itemtype \in ItemTypes

RecordKey(d) == ItemKey(docs.classitems[d].static, docs.classitems[d].name)

\* the records among the first n that were registered on k under key
RecordsFor(k, key, n) ==
  {d \in 1..n : ItemAccepted(d) /\ ItemOwner(d) = k /\ RecordKey(d) = key}

\* the records among the first n whose key their class already had
DuplicateRecords(n) ==
  {d \in 1..n : ItemAccepted(d) /\ RecordsFor(ItemOwner(d), RecordKey(d), d - 1) # {}}

InRegisterPass == pc \in {"items", "additional"}

\* C3 as stated: of the records of one class with one key the first is the
\* one stored, and each later one is reported.
C3_FirstRecordWins ==
  InRegisterPass =>
    /\ \A k \in Klasses : \A i \in 1..Len(Items(k)) :
         Items(k)[i].data = Min(RecordsFor(k, Items(k)[i].key, ii - 1))
    /\ Cardinality(WarningsOf("duplicate-item")) = Cardinality(DuplicateRecords(ii - 1))

\* C3 as amended: of the records of one class with one key the last is the
\* one stored (each later record replaces the earlier), and each later one is
\* reported.
C3_LastRecordWins ==
  InRegisterPass =>
    /\ \A k \in Klasses : \A i \in 1..Len(Items(k)) :
         Items(k)[i].data = Max(RecordsFor(k, Items(k)[i].key, ii - 1))
    /\ Cardinality(WarningsOf("duplicate-item")) = Cardinality(DuplicateRecords(ii - 1))

\* C3 witness: the register pass is over, two records had the same class and
\* key, the member stored is built from the second and a warning is recorded.
C3_Witness ==
  /\ pc = "additional"
  /\ WarningsOf("duplicate-item") # {}
  /\ \E k \in Klasses : \E i \in 1..Len(Items(k)) :
       /\ Cardinality(RecordsFor(k, Items(k)[i].key, ii - 1)) = 2
       /\ Items(k)[i].data = 2

\* C4 as stated: a cycle in the extends relation ends the resolve-all pass in
\* a fatal error, so the pass never completes with one.
C4_ExtendsCycleIsFatal == pc = "done" => ~ExtendsCycle

\* the run was aborted by a throw out of the resolve-all pass
ResolveAborted == pc = "aborted" /\ entries # <<>>

Resolves(name) == KlassFind(namespaces, registry, name, TRUE).klass # NoKlass

\* C5 as stated: an extends or uses target that names no registered class
\* never aborts the run; the class is left without that parent or mixin and
\* a warning is recorded for it.
C5_UnresolvedTargetNotFatal ==
  /\ ~ResolveAborted
  /\ pc = "done" =>
       \A k \in Klasses :
         LET d == klasses[k].data
         IN /\ (d.extends # NoName /\ ~Resolves(d.extends)) =>
                 /\ klasses[k].extends = NoKlass
                 /\ \E i \in WarningsOf("cant-find-extended") :
                      warnings[i].subject = klasses[k].fullName
            /\ \A j \in 1..Len(d.uses) :
                 ~Resolves(d.uses[j]) =>
                   \E i \in WarningsOf("cant-find-mixin") :
                     warnings[i].subject = klasses[k].fullName

\* the parameters at the positions 1..n of ps, rendered
Rendered(ps, n) == [i \in 1..n |-> ParamToString(ps[i])]

PlainPositions(ps) == {i \in 1..Len(ps) : ~ps[i].rest}

RestSplits(ps) == FirstRest(ps) # 0 /\ FirstRest(ps) # Len(ps)

\* C6 as stated: with the first rest parameter at position r and not last,
\* two declarations are built, the first listing the parameters up to r with
\* the rest parameter variadic, the second listing only those before r; with
\* the rest parameter last or absent, one declaration is built.
C6_SecondDropsAllAfterRest ==
  (emPc = "emitted" /\ emItem.itemType = "method") =>
    LET ps == emItem.params
        r == FirstRest(ps)
    IN IF RestSplits(ps)
       THEN /\ Len(emDecls) = 2
            /\ emDecls[1].params = Rendered(ps, r)
            /\ emDecls[1].params[r].spread /\ emDecls[1].params[r].array
            /\ emDecls[2].params = Rendered(ps, r - 1)
       ELSE Len(emDecls) = 1

\* C6 as amended: the second declaration lists every parameter that is not a
\* rest parameter, in the declared order: it drops the rest parameters and
\* keeps the plain parameters declared after them.
C6_SecondDropsOnlyRest ==
  (emPc = "emitted" /\ emItem.itemType = "method") =>
    LET ps == emItem.params
        r == FirstRest(ps)
    IN IF RestSplits(ps)
       THEN /\ Len(emDecls) = 2
            /\ emDecls[1].params = Rendered(ps, r)
            /\ emDecls[1].params[r].spread /\ emDecls[1].params[r].array
            /\ Len(emDecls[2].params) = Cardinality(PlainPositions(ps))
            /\ \A i \in PlainPositions(ps) :
                 emDecls[2].params[Cardinality({j \in PlainPositions(ps) : j <= i})]
                   = ParamToString(ps[i])
       ELSE Len(emDecls) = 1

\* C6 witness: two declarations were built and the second keeps a parameter
\* declared after the rest parameter.
C6_Witness ==
  /\ emPc = "emitted"
  /\ Len(emDecls) = 2
  /\ Len(emDecls[2].params) >= FirstRest(emItem.params)
  /\ \E i \in PlainPositions(emItem.params) : i > FirstRest(emItem.params)

CalledPairs == {NamespaceAndKlassName(calls[i]) : i \in 1..Len(calls)}

FirstCall(pair) == Min({i \in 1..Len(calls) : NamespaceAndKlassName(calls[i]) = pair})

\* C7: after any sequence of Klass.create calls each pair of namespace and
\* simple name maps to one class, the one the first call for the pair made;
\* every later call for the pair returned nothing and recorded a diagnostic.
C7_FirstCreateWins ==
  /\ DOMAIN registry = CalledPairs
  /\ Len(klasses) = Cardinality(CalledPairs)
  /\ \A pair \in DOMAIN registry :
       /\ klasses[registry[pair]].data.name = calls[FirstCall(pair)]
       /\ klasses[registry[pair]].name = pair[2]
       /\ registry[pair] =
            Cardinality({NamespaceAndKlassName(calls[i]) : i \in 1..FirstCall(pair)})
  /\ classes = [i \in 1..Len(klasses) |-> i]
  /\ Cardinality(WarningsOf("class-exists")) = Len(calls) - Len(klasses)

\* C7 witness: two calls with different full names for the same pair were
\* made, and the second was rejected with a diagnostic.
C7_Witness ==
  /\ Len(calls) = 2
  /\ calls[1] # calls[2]
  /\ NamespaceAndKlassName(calls[1]) = NamespaceAndKlassName(calls[2])
  /\ Len(klasses) = 1
  /\ Len(warnings) = 1

\* the top-level forEach is about to call postProcess on a resolved class
SecondInvocation ==
  /\ pc = "resolve"
  /\ stack = <<>>
  /\ ri <= Len(classes)
  /\ klasses[classes[ri]].postProcessed

\* the forEach of line 210 is about to call postProcess on a class whose
\* resolution has already run or is running
NestedSecondInvocation ==
  /\ pc = "resolve"
  /\ stack # <<>>
  /\ Top.at = "merge"
  /\ Top.i <= Len(klasses[Top.k].implements)
  /\ klasses[Top.k].implements[Top.i].kind = "klass"
  /\ klasses[klasses[Top.k].implements[Top.i].id].postProcessed

\* C8: postProcess invoked on a class that is already resolved changes
\* nothing: no class's member map, extends link or implements list changes,
\* no namespace or warning is added, and no body is entered.
C8_PostProcessIdempotent ==
  [][/\ SecondInvocation =>
          /\ klasses' = klasses
          /\ warnings' = warnings
          /\ namespaces' = namespaces
          /\ registry' = registry
          /\ stack' = stack
          /\ entries' = entries
     /\ NestedSecondInvocation =>
          /\ klasses' = klasses
          /\ warnings' = warnings
          /\ Len(stack') = Len(stack)
          /\ entries' = entries]_vars

\* C8 witness: the forEach has just called postProcess on a class that was
\* resolved before, as the parent of an earlier class, and that has members.
C8_Witness ==
  /\ pc = "resolve"
  /\ stack = <<>>
  /\ ri > 2
  /\ \E j \in 1..(ri - 2) : klasses[classes[j]].extends = classes[ri - 1]
  /\ Len(Items(classes[ri - 1])) > 0

\* the most steps the body of k's postProcess takes
Work(k) ==
  4 + 2 * (IF Len(klasses[k].data.uses) > Len(klasses[k].implements)
           THEN Len(klasses[k].data.uses) ELSE Len(klasses[k].implements))

\* the most steps an activation still takes
Remaining(f) ==
  CASE f.at = "extends" -> Work(f.k)
    [] f.at = "extendsRet" -> Work(f.k) - 1
    [] f.at = "uses" -> Work(f.k) - 2
    [] f.at = "merge" -> 2 * (Len(klasses[f.k].implements) - f.i + 1) + 1
    [] f.at = "mergeRet" -> 2 * (Len(klasses[f.k].implements) - f.i + 1)

RECURSIVE PendingWork(_)
PendingWork(n) ==
  IF n = 0 THEN 0
  ELSE (IF klasses[n].postProcessed THEN 0 ELSE Work(n)) + PendingWork(n - 1)

RECURSIVE StackWork(_)
StackWork(n) == IF n = 0 THEN 0 ELSE Remaining(stack[n]) + StackWork(n - 1)

\* a bound on the number of steps the resolve-all pass still takes
Measure ==
  PendingWork(Len(klasses)) + StackWork(Len(stack)) + (Len(classes) + 1 - ri)
    + (IF pc = "resolve" THEN 1 ELSE 0)

EntriesOnce ==
  /\ \A i, j \in 1..Len(entries) : entries[i] = entries[j] => i = j
  /\ \A i \in 1..Len(entries) : entries[i] \in Klasses

\* C9: the resolve-all pass terminates whatever the extends/uses graph: each
\* of its steps lowers a natural-number bound on the steps left, and the body
\* of postProcess is entered at most once per class.
C9_ResolveTerminates ==
  [][pc = "resolve" => (Measure' < Measure /\ Measure' >= 0 /\ EntriesOnce')]_vars

UsesCycle ==
  \E a, b \in Klasses :
    /\ a # b
    /\ \E i \in 1..Len(klasses[a].implements) : klasses[a].implements[i].id = b
    /\ \E i \in 1..Len(klasses[b].implements) : klasses[b].implements[i].id = a

\* C9 witness: the pass has completed on a document whose extends relation
\* and whose uses relation both hold a cycle, with every class entered.
C9_Witness ==
  /\ pc = "done"
  /\ ExtendsCycle
  /\ UsesCycle
  /\ Len(entries) = Len(klasses)

\* C10 as stated: resolution never removes or replaces a member registered
\* directly on a class: in every step of the resolve-all pass the entry of a
\* class that was built from one of the class's own item records keeps its
\* key and its item record.
C10_RegisteredMembersKept ==
  [][pc = "resolve" =>
       \A k \in Klasses : \A i \in 1..Len(Items(k)) :
         ItemOwner(Items(k)[i].data) = k =>
           /\ i <= Len(klasses'[k].items)
           /\ klasses'[k].items[i].key = Items(k)[i].key
           /\ klasses'[k].items[i].data = Items(k)[i].data]_vars

====
